---- MODULE Spec2Model ----
(***************************************************************************)
(* The IDL tooling of phoenix-v1: idl/generateIdl.js (shank extraction     *)
(* followed by mutateIdl, the patch of the extracted schema) and the two   *)
(* client generation drivers generateClient.js (with and without the       *)
(* prettier pass).  The schema file is modelled as the sequence of lexical *)
(* chunks it holds on disk; JSON.parse and JSON.stringify(_, null, 2) are  *)
(* modelled on those chunks.                                               *)
(***************************************************************************)
EXTENDS Integers, Sequences, FiniteSets, TLC

\* Bounds of the model.
MaxInstructions == 2
MaxArgs == 2
MaxRuns == 2

(***************************************************************************)
(* JavaScript values as they come out of JSON.parse.  Every value is a     *)
(* record of one shape: k is the kind, s the text of a string or literal   *)
(* (or the key of an object member), items the elements of an array, the   *)
(* members of an object in property order, or the value of a member.       *)
(***************************************************************************)
Str(s) == [k |-> "str", s |-> s, items |-> <<>>]
Lit(s) == [k |-> "lit", s |-> s, items |-> <<>>]
Arr(xs) == [k |-> "arr", s |-> "", items |-> xs]
Obj(ms) == [k |-> "obj", s |-> "", items |-> ms]
Mem(key, v) == [k |-> "mem", s |-> key, items |-> <<v>>]
Undefined == [k |-> "undef", s |-> "", items |-> <<>>]

\* obj.key : the value of the property, undefined when obj has none (or is
\* a string or literal); reading a property of undefined itself throws and
\* is guarded by the callers.
Get(obj, key) ==
  IF obj.k = "obj" /\ \E i \in 1..Len(obj.items) : obj.items[i].s = key
  THEN LET i == CHOOSE j \in 1..Len(obj.items) : obj.items[j].s = key
       IN obj.items[i].items[1]
  ELSE Undefined

\* Mutant of the assignment: the property is deleted and defined anew, so
\* an existing property moves behind the others.
PutLast(obj, key, v) ==
  Obj(Append(SelectSeq(obj.items, LAMBDA m : m.s # key), Mem(key, v)))

\* obj[key] = v : an existing property keeps its place, a new one goes last.
Put(obj, key, v) ==
  IF \E i \in 1..Len(obj.items) : obj.items[i].s = key
  THEN Obj([i \in 1..Len(obj.items) |->
              IF obj.items[i].s = key THEN Mem(key, v) ELSE obj.items[i]])
  ELSE Obj(Append(obj.items, Mem(key, v)))

(***************************************************************************)
(* The bytes of a file, as a sequence of chunks: the structural characters,*)
(* a double quote, a newline, a space, one indentation unit of two spaces, *)
(* and the text between two quotes or of a literal as one chunk.           *)
(***************************************************************************)
Q == "\""
NL == "\n"
SP == " "
Indent2 == "  "
Whitespace == {NL, SP, Indent2}
Literals == {"null", "true", "false", "0", "1"}

RECURSIVE Indentation(_)
Indentation(depth) ==
  IF depth = 0 THEN <<>> ELSE <<Indent2>> \o Indentation(depth - 1)

Break(depth) == <<NL>> \o Indentation(depth)

\* JSON.stringify(value, null, 2) at nesting depth `depth`.
RECURSIVE Stringify(_, _)
RECURSIVE StringifyItems(_, _, _)
StringifyItems(items, depth, inObject) ==
  IF items = <<>> THEN <<>>
  ELSE LET x == Head(items)
           one == IF inObject
                  THEN <<Q, x.s, Q, ":", SP>> \o Stringify(x.items[1], depth)
                  ELSE Stringify(x, depth)
           rest == Tail(items)
       IN Break(depth) \o one
            \o (IF rest = <<>> THEN <<>>
                ELSE <<",">> \o StringifyItems(rest, depth, inObject))

Stringify(v, depth) ==
  CASE v.k = "str" -> <<Q, v.s, Q>>
    [] v.k = "lit" -> <<v.s>>
    [] v.k = "arr" ->
         IF v.items = <<>> THEN <<"[", "]">>
         ELSE <<"[">> \o StringifyItems(v.items, depth + 1, FALSE)
                \o Break(depth) \o <<"]">>
    [] v.k = "obj" ->
         IF v.items = <<>> THEN <<"{", "}">>
         ELSE <<"{">> \o StringifyItems(v.items, depth + 1, TRUE)
                \o Break(depth) \o <<"}">>
    [] OTHER -> <<"null">>

\* JSON.parse: a result is [ok, val, next], next the index after the value.
Fail == [ok |-> FALSE, val |-> Undefined, next |-> 0]
Done(v, n) == [ok |-> TRUE, val |-> v, next |-> n]

RECURSIVE SkipWs(_, _)
SkipWs(toks, i) ==
  IF i <= Len(toks) /\ toks[i] \in Whitespace THEN SkipWs(toks, i + 1) ELSE i

Tok(toks, i) == IF i <= Len(toks) THEN toks[i] ELSE "<eof>"

RECURSIVE ParseValue(_, _)
RECURSIVE ParseElements(_, _, _)
RECURSIVE ParseMembers(_, _, _)

\* elements after "[" : value ("," value)* "]"
ParseElements(toks, i, acc) ==
  LET r == ParseValue(toks, i)
  IN IF ~r.ok THEN Fail
     ELSE LET j == SkipWs(toks, r.next)
              t == Tok(toks, j)
          IN IF t = "]" THEN Done(Arr(Append(acc, r.val)), j + 1)
             ELSE IF t = "," THEN ParseElements(toks, j + 1, Append(acc, r.val))
             ELSE Fail

\* members after "{" : string ":" value ("," string ":" value)* "}"
ParseMembers(toks, i, acc) ==
  LET a == SkipWs(toks, i)
  IN IF ~(Tok(toks, a) = Q /\ a + 2 <= Len(toks) /\ toks[a + 2] = Q) THEN Fail
     ELSE LET key == toks[a + 1]
              c == SkipWs(toks, a + 3)
          IN IF Tok(toks, c) # ":" THEN Fail
             ELSE LET r == ParseValue(toks, c + 1)
                  IN IF ~r.ok THEN Fail
                     ELSE LET obj == Put(acc, key, r.val)
                              j == SkipWs(toks, r.next)
                              t == Tok(toks, j)
                          IN IF t = "}" THEN Done(obj, j + 1)
                             ELSE IF t = "," THEN ParseMembers(toks, j + 1, obj)
                             ELSE Fail

ParseValue(toks, i) ==
  LET a == SkipWs(toks, i)
      t == Tok(toks, a)
  IN CASE t = Q ->
            IF a + 2 <= Len(toks) /\ toks[a + 2] = Q
            THEN Done(Str(toks[a + 1]), a + 3) ELSE Fail
       [] t \in Literals -> Done(Lit(t), a + 1)
       [] t = "[" ->
            LET b == SkipWs(toks, a + 1)
            IN IF Tok(toks, b) = "]" THEN Done(Arr(<<>>), b + 1)
               ELSE ParseElements(toks, b, <<>>)
       [] t = "{" ->
            LET b == SkipWs(toks, a + 1)
            IN IF Tok(toks, b) = "}" THEN Done(Obj(<<>>), b + 1)
               ELSE ParseMembers(toks, b, Obj(<<>>))
       [] OTHER -> Fail

\* JSON.parse(text): one value, then nothing but whitespace.
JSONparse(toks) ==
  LET r == ParseValue(toks, 1)
  IN IF r.ok /\ SkipWs(toks, r.next) = Len(toks) + 1 THEN r ELSE Fail

JSONstringify(v) == Stringify(v, 0)

(***************************************************************************)
(* mutateIdl's rule table: the eleven `if` statements of the loop body, in *)
(* source order, each with the names its condition compares against and    *)
(* the argument its body pushes.                                           *)
(***************************************************************************)
Defined(n) == Obj(<<Mem("defined", Str(n))>>)
Argument(n, type) == Obj(<<Mem("name", Str(n)), Mem("type", type)>>)

Rules ==
  << [names |-> {"ReduceOrder", "ReduceOrderWithFreeFunds"},
      arg |-> Argument("params", Defined("ReduceOrderParams"))],
     [names |-> {"CancelMulitpleOrdersById",
                 "CancelMulitpleOrdersByIdWithFreeFunds"},
      arg |-> Argument("params", Defined("CancelMulitpleOrdersByIdParams"))],
     [names |-> {"PlaceLimitOrder", "PlaceLimitOrderWithFreeFunds",
                 "Swap", "SwapWithFreeFunds"},
      arg |-> Argument("orderPacket", Defined("OrderPacket"))],
     [names |-> {"PlaceMultiplePostOnlyOrders",
                 "PlaceMultiplePostOnlyOrdersWithFreeFunds"},
      arg |-> Argument("multipleOrderPacket", Defined("MultipleOrderPacket"))],
     [names |-> {"CancelUpTo", "CancelUpToWithFreeFunds", "ForceCancelOrders"},
      arg |-> Argument("params", Defined("CancelUpToParams"))],
     [names |-> {"DepositFunds"},
      arg |-> Argument("depositFundsParams", Defined("DepositParams"))],
     [names |-> {"WithdrawFunds"},
      arg |-> Argument("withdrawFundsParams", Defined("WithdrawParams"))],
     [names |-> {"ChangeSeatStatus"},
      arg |-> Argument("approvalStatus", Defined("SeatApprovalStatus"))],
     [names |-> {"ChangeMarketStatus"},
      arg |-> Argument("marketStatus", Defined("MarketStatus"))],
     [names |-> {"InitializeMarket"},
      arg |-> Argument("initializeParams", Defined("InitializeParams"))],
     [names |-> {"NameSuccessor"},
      arg |-> Argument("successor", Str("publicKey"))] >>

\* Mutants of the condition: the fifth rule with a name of the first pasted
\* into it; the last rule written with = for ===, true of every instruction.
RuleMatchesPasted(r, name) ==
  /\ name.k = "str"
  /\ name.s \in Rules[r].names \cup (IF r = 5 THEN {"ReduceOrder"} ELSE {})

RuleMatchesAssigned(r, name) ==
  r = Len(Rules) \/ (name.k = "str" /\ name.s \in Rules[r].names)

\* The condition of the r-th `if`: instruction.name === one of its literals.
RuleMatches(r, name) == name.k = "str" /\ name.s \in Rules[r].names

\* Mutant of the push: args.unshift(a).
Unshift(args, a) == Arr(<<a>> \o args.items)

\* args.push(a): a TypeError unless args is an array.
CanPush(args) == args.k = "arr"
Push(args, a) == Arr(Append(args.items, a))

\* A step of the loop either completes with a value or throws.
Threw == [ok |-> FALSE, val |-> Undefined]
Ok(v) == [ok |-> TRUE, val |-> v]

\* The `if` statements r, r+1, ... of the loop body on one instruction.
\* instruction.name of null throws; of any other non-object it is undefined.
RECURSIVE ApplyRules(_, _)
ApplyRules(instruction, r) ==
  IF r > Len(Rules) THEN Ok(instruction)
  ELSE IF ~RuleMatches(r, Get(instruction, "name"))
       THEN ApplyRules(instruction, r + 1)
       ELSE LET args == Get(instruction, "args")
            IN IF ~CanPush(args) THEN Threw
               ELSE ApplyRules(
                      Put(instruction, "args", Push(args, Rules[r].arg)), r + 1)

\* Mutant of the loop body: an instruction that no rule names is an error.
PatchInstructionStrict(instruction) ==
  IF \/ instruction = Lit("null")
     \/ \A r \in 1..Len(Rules) : ~RuleMatches(r, Get(instruction, "name"))
  THEN Threw
  ELSE ApplyRules(instruction, 1)

PatchInstruction(instruction) ==
  IF instruction = Lit("null") THEN Threw ELSE ApplyRules(instruction, 1)

\* for (const instruction of idl.instructions) { ... } : the schema after the
\* loop, or a throw (idl.instructions not iterable, or the body threw).  The
\* elements of a string are its characters, which no rule matches.
PatchLoop(idl) ==
  LET instructions == Get(idl, "instructions")
  IN CASE instructions.k = "str" -> Ok(idl)
       [] instructions.k = "arr" ->
            LET each == [i \in 1..Len(instructions.items) |->
                           PatchInstruction(instructions.items[i])]
            IN IF \E i \in 1..Len(each) : ~each[i].ok THEN Threw
               ELSE Ok(Put(idl, "instructions",
                           Arr([i \in 1..Len(each) |-> each[i].val])))
       [] OTHER -> Threw

(***************************************************************************)
(* The file system and the inputs of the model.                            *)
(***************************************************************************)
\* path.join(idlDir, `${PROGRAM_NAME}.json`) in generateIdl.js and in the
\* two generateClient.js.
generatedIdlPath == "idl/phoenix.json"
clientIdlPath == "idl/phoenix_v1.json"
Paths == {generatedIdlPath, clientIdlPath}

Absent == [exists |-> FALSE, bytes |-> <<>>]
File(bytes) == [exists |-> TRUE, bytes |-> bytes]

\* Instruction names a schema is drawn from: the names of the rule table,
\* two instructions that carry no hidden argument, and the name that the
\* second rule's literal "CancelMulitpleOrdersById" misspells.
ProgramInstructions ==
  << "Swap", "SwapWithFreeFunds", "PlaceLimitOrder",
     "PlaceLimitOrderWithFreeFunds", "ReduceOrder", "ReduceOrderWithFreeFunds",
     "CancelUpTo", "CancelUpToWithFreeFunds", "CancelMulitpleOrdersById",
     "CancelMulitpleOrdersByIdWithFreeFunds", "WithdrawFunds", "DepositFunds",
     "RequestSeat", "Log", "CancelMultipleOrdersById",
     "PlaceMultiplePostOnlyOrders",
     "PlaceMultiplePostOnlyOrdersWithFreeFunds", "InitializeMarket",
     "NameSuccessor", "ChangeMarketStatus", "ChangeSeatStatus",
     "ForceCancelOrders" >>

\* The arguments the extractor itself may have found, in declaration order.
ExtractedArgNames == <<"side", "params", "size", "price", "tag">>
ExtractedArg(i) ==
  Argument(ExtractedArgNames[i],
           IF i % 2 = 1 THEN Defined("Side") ELSE Str("u64"))

Instruction(n, argc) ==
  Obj(<< Mem("name", Str(n)),
         Mem("accounts", Arr(<<>>)),
         Mem("args", Arr([i \in 1..argc |-> ExtractedArg(i)])) >>)

\* A schema as extracted: `len` instructions from position `first` of the
\* program's list (taken as a cycle), each with `argc` extracted arguments.
Schema(first, len, argc) ==
  Obj(<< Mem("version", Str("0.1.0")),
         Mem("name", Str("phoenix")),
         Mem("instructions",
             Arr([i \in 1..len |->
                    Instruction(
                      ProgramInstructions[
                        ((first + i - 2) % Len(ProgramInstructions)) + 1],
                      argc)])),
         Mem("types", Arr(<<Obj(<<Mem("name", Str("Side"))>>)>>)),
         Mem("errors",
             Arr(<<Obj(<<Mem("code", Lit("0")),
                         Mem("name", Str("InvalidMarketParameters"))>>)>>)) >>)

\* The schemas the model extracts: the one without instructions, and those
\* of MaxInstructions consecutive instructions, each with no extracted
\* argument or with MaxArgs of them.
WellFormedSchemas ==
  { Schema(w[1], w[2], w[3]) :
      w \in { v \in (1..Len(ProgramInstructions)) \X {0, MaxInstructions}
                      \X {0, MaxArgs} :
                /\ v[2] <= Len(ProgramInstructions)
                /\ v[3] <= Len(ExtractedArgNames) } }

\* The same text without any whitespace: valid JSON, not what save writes.
Compact(bytes) == SelectSeq(bytes, LAMBDA t : t \notin Whitespace)

\* Contents that are not a well-formed schema in canonical form.
Truncated == <<"{", NL>>
NoInstructions == Obj(<<Mem("types", Arr(<<>>))>>)
NoTypes == Obj(<<Mem("instructions", Arr(<<Instruction("Swap", 0)>>))>>)
NoArgs ==
  Obj(<< Mem("instructions",
             Arr(<<Instruction("Swap", 0),
                   Obj(<<Mem("name", Str("DepositFunds"))>>)>>)),
         Mem("types", Arr(<<>>)) >>)
OddContents ==
  { Truncated, JSONstringify(NoInstructions), JSONstringify(NoTypes),
    JSONstringify(NoArgs), Compact(JSONstringify(Schema(1, 1, 0))) }

\* What the extraction tool may leave at generatedIdlPath when it succeeds.
ExtractorOutputs ==
  { JSONstringify(v) : v \in WellFormedSchemas } \cup OddContents

(***************************************************************************)
(* State.                                                                  *)
(***************************************************************************)
VARIABLES
  fs,          \* the schema files on storage, by path
  program,     \* the script the current node process runs
  pc,          \* where that process is
  exitStatus,  \* its exit status: "none" while it runs, then "0" or "1"
  console,     \* what it has written to stdout and stderr (kinds of line)
  child,       \* the spawned tool: shank, or prettier
  runs,        \* node processes started so far
  base,        \* generatedIdlPath's file as the process found it or as
               \* the extraction tool then wrote it
  mutateCalls, \* calls of mutateIdl in this process
  wrote,       \* mutateIdl reached fs.writeFileSync in this process
  onError,     \* shank's "error" listener ran in this process
  caught,      \* the main().catch handler ran in this process
  generator,   \* the driver's generator: "none", "pending", "done", "failed"
  fed,         \* the file the driver's require read in this process
  patchedOnDisk \* generatedIdlPath holds what a completed mutateIdl saved

vars ==
  << fs, program, pc, exitStatus, console, child, runs, base,
     mutateCalls, wrote, onError, caught, generator, fed, patchedOnDisk >>

history ==
  <<base, mutateCalls, wrote, onError, caught, fed, patchedOnDisk>>

Init ==
  /\ \E idlFile \in {Absent, File(Truncated)},
        clientFile \in {Absent,
                        File(JSONstringify(PatchLoop(Schema(1, 1, 0)).val))} :
       fs = [p \in Paths |->
               IF p = generatedIdlPath THEN idlFile ELSE clientFile]
  /\ program = "none"
  /\ pc = "idle"
  /\ exitStatus = "none"
  /\ console = {}
  /\ child = "none"
  /\ runs = 0
  /\ base = fs[generatedIdlPath]
  /\ mutateCalls = 0
  /\ wrote = FALSE
  /\ onError = FALSE
  /\ caught = FALSE
  /\ generator = "none"
  /\ fed = Absent
  /\ patchedOnDisk = FALSE

\* A fresh node process: nothing of the previous one survives but the files.
Launch(script, at) ==
  /\ pc \in {"idle", "exited"}
  /\ runs < MaxRuns
  /\ runs' = runs + 1
  /\ program' = script
  /\ pc' = at
  /\ exitStatus' = "none"
  /\ child' = "none"
  /\ base' = fs[generatedIdlPath]
  /\ mutateCalls' = 0
  /\ wrote' = FALSE
  /\ onError' = FALSE
  /\ caught' = FALSE
  /\ UNCHANGED patchedOnDisk

\* process.exit(code), or the process ending on an uncaught exception.
Exit(code) ==
  /\ pc' = "exited"
  /\ exitStatus' = code

(***************************************************************************)
(* idl/generateIdl.js                                                      *)
(***************************************************************************)
\* node generateIdl.js: main() runs up to `await rustbinMatch(...)`.
main ==
  /\ Launch("generateIdl", "rustbinMatch")
  /\ console' = {}
  /\ generator' = "none"
  /\ fed' = Absent
  /\ UNCHANGED fs

\* rustbinMatch rejects: main's promise rejects and main().catch runs.
mainCatch ==
  /\ program = "generateIdl" /\ pc = "rustbinMatch"
  /\ console' = console \cup {"err"}
  /\ caught' = TRUE
  /\ Exit("1")
  /\ UNCHANGED <<fs, program, child, runs, base, mutateCalls,
                 wrote, onError, generator, fed, patchedOnDisk>>

\* rustbinMatch resolves: spawn(shankExecutable, ...) and the listeners.
\* The spawn either starts the tool or fails (ENOENT, EACCES), which node
\* reports by an "error" event on a later tick.
spawnShank ==
  /\ program = "generateIdl" /\ pc = "rustbinMatch"
  /\ pc' = "spawned"
  /\ child' \in {"running", "ENOENT", "EACCES"}
  /\ UNCHANGED <<fs, program, exitStatus, console, runs, generator, history>>

\* shank.stdout.on("data") and shank.stderr.on("data"): the lines are
\* passed on; they may still arrive after "exit".
shankStdout ==
  /\ program = "generateIdl" /\ pc \in {"spawned", "patched"}
  /\ child \in {"running", "exit 0", "exit 1", "SIGKILL"}
  /\ console' = console \cup {"shank stdout"}
  /\ UNCHANGED <<fs, program, pc, exitStatus, child, runs, generator, history>>

shankStderr ==
  /\ program = "generateIdl" /\ pc \in {"spawned", "patched"}
  /\ child \in {"running", "exit 0", "exit 1", "SIGKILL"}
  /\ console' = console \cup {"shank stderr"}
  /\ UNCHANGED <<fs, program, pc, exitStatus, child, runs, generator, history>>

\* The tool ends.  A successful run has written the schema it extracted; a
\* failed or killed one has left the file alone.
shankSucceeds ==
  /\ program = "generateIdl" /\ pc = "spawned" /\ child = "running"
  /\ child' = "exit 0"
  /\ \E b \in ExtractorOutputs :
       /\ fs' = [fs EXCEPT ![generatedIdlPath] = File(b)]
       /\ base' = File(b)
  /\ patchedOnDisk' = FALSE
  /\ UNCHANGED <<program, pc, exitStatus, console, runs, generator,
                 mutateCalls, wrote, onError, caught, fed>>

shankFails ==
  /\ program = "generateIdl" /\ pc = "spawned" /\ child = "running"
  /\ child' \in {"exit 1", "SIGKILL"}
  /\ UNCHANGED <<fs, program, pc, exitStatus, console, runs, generator, history>>

\* Mutant of the "error" listener: the diagnostics without process.exit(1).
shankOnErrorNoExit ==
  /\ program = "generateIdl" /\ pc = "spawned"
  /\ child \in {"ENOENT", "EACCES"}
  /\ console' = console \cup {"err"}
                  \cup (IF child = "ENOENT" THEN {"install shank"} ELSE {})
  /\ onError' = TRUE
  /\ UNCHANGED <<fs, program, pc, exitStatus, child, runs, base, mutateCalls,
                 wrote, caught, generator, fed, patchedOnDisk>>

\* .on("error", ...): the diagnostic, the hint for ENOENT, process.exit(1).
shankOnError ==
  /\ program = "generateIdl" /\ pc = "spawned"
  /\ child \in {"ENOENT", "EACCES"}
  /\ console' = console \cup {"err"}
                  \cup (IF child = "ENOENT" THEN {"install shank"} ELSE {})
  /\ onError' = TRUE
  /\ Exit("1")
  /\ UNCHANGED <<fs, program, child, runs, base, mutateCalls,
                 wrote, caught, generator, fed, patchedOnDisk>>

\* require(generatedIdlPath): the parsed content, or a throw.
Require(file) ==
  IF file.exists THEN LET r == JSONparse(file.bytes) IN [ok |-> r.ok, val |-> r.val]
  ELSE Threw

\* The body of mutateIdl from the require to the end of the loop.
Mutated(file) ==
  LET idl == Require(file)
  IN IF idl.ok THEN PatchLoop(idl.val) ELSE Threw

\* Mutant of the save: the object written without JSON.stringify.
SavedAsString(idl) == File(<<"[object Object]">>)

\* fs.writeFileSync(generatedIdlPath, JSON.stringify(idl, null, 2))
Saved(idl) == File(JSONstringify(idl))

\* .on("exit", () => { mutateIdl(); }): whatever the exit code or signal.
\* A throw in mutateIdl is an uncaught exception: the process ends with 1.
mutateIdl ==
  /\ program = "generateIdl" /\ pc = "spawned"
  /\ child \in {"exit 0", "exit 1", "SIGKILL"}
  /\ mutateCalls' = mutateCalls + 1
  /\ LET idl == Mutated(fs[generatedIdlPath])
     IN IF idl.ok
        THEN /\ fs' = [fs EXCEPT ![generatedIdlPath] = Saved(idl.val)]
             /\ wrote' = TRUE
             /\ patchedOnDisk' = TRUE
             /\ console' = console \cup {"Mutating IDL"}
             /\ pc' = "patched"
             /\ UNCHANGED exitStatus
        ELSE /\ console' = console \cup {"Mutating IDL", "err"}
             /\ Exit("1")
             /\ UNCHANGED <<fs, wrote, patchedOnDisk>>
  /\ UNCHANGED <<program, child, runs, base, onError, caught, generator, fed>>

\* Nothing is left to wait for: the process ends with status 0.
idlDrained ==
  /\ program = "generateIdl" /\ pc = "patched"
  /\ Exit("0")
  /\ UNCHANGED <<fs, program, console, child, runs, generator, history>>

(***************************************************************************)
(* The client generation drivers: idl/generateClient.js, which exits as    *)
(* soon as the generator is done, and the generateClient.js that runs      *)
(* prettier over the generated files afterwards.                           *)
(***************************************************************************)
\* main() up to `await gen.renderAndWriteTo(sdkDir)`: the log line, the
\* require of the schema and the start of the generator.  A throw of the
\* require rejects generateTypeScriptSDK's promise.
generateTypeScriptSDK(script) ==
  /\ Launch(script, IF Require(fs[clientIdlPath]).ok THEN "rendering"
                    ELSE "rejected")
  /\ console' = {"Generating TypeScript SDK"}
  /\ generator' = IF Require(fs[clientIdlPath]).ok THEN "pending" ELSE "failed"
  /\ fed' = fs[clientIdlPath]
  /\ UNCHANGED fs

generateClientMain == generateTypeScriptSDK("generateClient")

prettierClientMain == generateTypeScriptSDK("generateClientPrettier")

\* renderAndWriteTo rejects: so does generateTypeScriptSDK's promise.
renderRejects ==
  /\ program \in {"generateClient", "generateClientPrettier"}
  /\ pc = "rendering"
  /\ generator' = "failed"
  /\ pc' = "rejected"
  /\ UNCHANGED <<fs, program, exitStatus, console, child, runs, history>>

\* idl/generateClient.js after the await: "Success!" and process.exit(0).
renderResolves ==
  /\ program = "generateClient" /\ pc = "rendering"
  /\ generator' = "done"
  /\ console' = console \cup {"Success!"}
  /\ Exit("0")
  /\ UNCHANGED <<fs, program, child, runs, history>>

\* main() does not return the promise of generateTypeScriptSDK().then(...),
\* so its rejection is handled by nobody, main().catch included.  What node
\* does with an unhandled rejection depends on its version and flags: it
\* ends the process with status 1, or it warns and lets the process end
\* with status 0.
unhandledRejection ==
  /\ program \in {"generateClient", "generateClientPrettier"}
  /\ pc = "rejected"
  /\ \E mode \in {"throw", "warn"} :
       IF mode = "throw"
       THEN console' = console \cup {"err"} /\ Exit("1")
       ELSE console' = console \cup {"UnhandledPromiseRejectionWarning"}
            /\ Exit("0")
  /\ UNCHANGED <<fs, program, child, runs, generator, history>>

\* Mutant of the driver's callback: attached with .finally instead of .then,
\* it runs whether the generator resolved or rejected.
spawnPrettierFinally ==
  /\ program = "generateClientPrettier" /\ pc \in {"rendering", "rejected"}
  /\ generator' = IF pc = "rendering" THEN "done" ELSE generator
  /\ console' = console \cup {"Running prettier"}
  /\ child' \in {"running", "ENOENT"}
  /\ pc' = "formatting"
  /\ UNCHANGED <<fs, program, exitStatus, runs, history>>

\* The .then callback of the driver with prettier: the log line and
\* spawn("prettier", ["--write", sdkDir], { stdio: "inherit" }).
spawnPrettier ==
  /\ program = "generateClientPrettier" /\ pc = "rendering"
  /\ generator' = "done"
  /\ console' = console \cup {"Running prettier"}
  /\ child' \in {"running", "ENOENT"}
  /\ pc' = "formatting"
  /\ UNCHANGED <<fs, program, exitStatus, runs, history>>

\* prettier ends, with any status.
prettierEnds ==
  /\ program = "generateClientPrettier" /\ pc = "formatting"
  /\ child = "running"
  /\ child' \in {"exit 0", "exit 1", "SIGKILL"}
  /\ UNCHANGED <<fs, program, pc, exitStatus, console, runs, generator, history>>

\* Mutant of prettier's "error" listener: the failure made fatal.
prettierOnErrorFatal ==
  /\ program = "generateClientPrettier" /\ pc = "formatting"
  /\ child = "ENOENT"
  /\ console' = console \cup {"Failed to lint client files", "err"}
  /\ Exit("1")
  /\ UNCHANGED <<fs, program, child, runs, generator, history>>

\* .on("error", ...) of prettier: a log line, nothing else.
prettierOnError ==
  /\ program = "generateClientPrettier" /\ pc = "formatting"
  /\ child = "ENOENT"
  /\ console' = console \cup {"Failed to lint client files"}
  /\ pc' = "formatted"
  /\ UNCHANGED <<fs, program, exitStatus, child, runs, generator, history>>

\* .on("exit", ...) of prettier: a log line, whatever the status.
prettierOnExit ==
  /\ program = "generateClientPrettier" /\ pc = "formatting"
  /\ child \in {"exit 0", "exit 1", "SIGKILL"}
  /\ console' = console \cup {"Finished linting files."}
  /\ pc' = "formatted"
  /\ UNCHANGED <<fs, program, exitStatus, child, runs, generator, history>>

\* Nothing is left to wait for: the process ends with status 0.
clientDrained ==
  /\ program = "generateClientPrettier" /\ pc = "formatted"
  /\ Exit("0")
  /\ UNCHANGED <<fs, program, console, child, runs, generator, history>>

Next ==
  \/ main \/ mainCatch \/ spawnShank \/ shankStdout \/ shankStderr
  \/ shankSucceeds \/ shankFails \/ shankOnError \/ mutateIdl \/ idlDrained
  \/ generateClientMain \/ prettierClientMain \/ renderRejects
  \/ renderResolves \/ unhandledRejection \/ spawnPrettier \/ prettierEnds
  \/ prettierOnError \/ prettierOnExit \/ clientDrained

Spec == Init /\ [][Next]_vars
(***************************************************************************)
(* What the claims speak about.                                            *)
(***************************************************************************)
\* The schema mutateIdl loaded and the schema now on storage.
OldIdl == Require(base).val
NewIdl == Require(fs[generatedIdlPath]).val
InstructionsOf(idl) ==
  IF Get(idl, "instructions").k = "arr" THEN Get(idl, "instructions").items
  ELSE <<>>
NameOf(instruction) == Get(instruction, "name")
ArgsOf(instruction) == Get(instruction, "args")

\* mutateIdl has run to its end in this process.
IdlPatched == program = "generateIdl" /\ wrote

\* The table as the specification states it: the nineteen names and the
\* argument each is to gain.
TableArgument(n) ==
  CASE n \in {"ReduceOrder", "ReduceOrderWithFreeFunds"} ->
         Argument("params", Defined("ReduceOrderParams"))
    [] n \in {"CancelMulitpleOrdersById",
              "CancelMulitpleOrdersByIdWithFreeFunds"} ->
         Argument("params", Defined("CancelMulitpleOrdersByIdParams"))
    [] n \in {"PlaceLimitOrder", "PlaceLimitOrderWithFreeFunds", "Swap",
              "SwapWithFreeFunds"} ->
         Argument("orderPacket", Defined("OrderPacket"))
    [] n \in {"PlaceMultiplePostOnlyOrders",
              "PlaceMultiplePostOnlyOrdersWithFreeFunds"} ->
         Argument("multipleOrderPacket", Defined("MultipleOrderPacket"))
    [] n \in {"CancelUpTo", "CancelUpToWithFreeFunds", "ForceCancelOrders"} ->
         Argument("params", Defined("CancelUpToParams"))
    [] n = "DepositFunds" ->
         Argument("depositFundsParams", Defined("DepositParams"))
    [] n = "WithdrawFunds" ->
         Argument("withdrawFundsParams", Defined("WithdrawParams"))
    [] n = "ChangeSeatStatus" ->
         Argument("approvalStatus", Defined("SeatApprovalStatus"))
    [] n = "ChangeMarketStatus" ->
         Argument("marketStatus", Defined("MarketStatus"))
    [] n = "InitializeMarket" ->
         Argument("initializeParams", Defined("InitializeParams"))
    [] n = "NameSuccessor" -> Argument("successor", Str("publicKey"))
    [] OTHER -> Undefined

TableNames ==
  { "ReduceOrder", "ReduceOrderWithFreeFunds", "CancelMulitpleOrdersById",
    "CancelMulitpleOrdersByIdWithFreeFunds", "PlaceLimitOrder",
    "PlaceLimitOrderWithFreeFunds", "Swap", "SwapWithFreeFunds",
    "PlaceMultiplePostOnlyOrders", "PlaceMultiplePostOnlyOrdersWithFreeFunds",
    "CancelUpTo", "CancelUpToWithFreeFunds", "ForceCancelOrders",
    "DepositFunds", "WithdrawFunds", "ChangeSeatStatus", "ChangeMarketStatus",
    "InitializeMarket", "NameSuccessor" }

InTable(instruction) ==
  NameOf(instruction).k = "str" /\ NameOf(instruction).s \in TableNames

AllNames ==
  TableNames \cup {ProgramInstructions[i] : i \in 1..Len(ProgramInstructions)}
    \cup UNION {Rules[r].names : r \in 1..Len(Rules)}

\* C1 (as claimed): the patch is idempotent: patching the schema that a
\* completed patch has saved yields that same schema again, so PlaceLimitOrder
\* with arguments [] has the single argument orderPacket after one and after
\* two applications.
C1_Idempotent ==
  IdlPatched => Mutated(fs[generatedIdlPath]) = Ok(NewIdl)

\* C2: order preservation: after a patch, every instruction whose name the
\* table holds has its original argument sequence, unchanged and in the same
\* order, followed by the rule's argument at index len(original arguments).
C2_OrderPreserved ==
  IdlPatched =>
    LET olds == InstructionsOf(OldIdl)
        news == InstructionsOf(NewIdl)
    IN /\ Len(news) = Len(olds)
       /\ \A i \in 1..Len(olds) :
            InTable(olds[i]) =>
              LET was == ArgsOf(olds[i]).items
                  now == ArgsOf(news[i])
              IN /\ now.k = "arr"
                 /\ Len(now.items) = Len(was) + 1
                 /\ SubSeq(now.items, 1, Len(was)) = was
                 /\ now.items[Len(was) + 1] = TableArgument(NameOf(olds[i]).s)

\* C2's case: a patched instruction that had two arguments of its own.
C2_Witness ==
  /\ IdlPatched
  /\ LET olds == InstructionsOf(OldIdl)
     IN \E i \in 1..Len(olds) :
          InTable(olds[i]) /\ Len(ArgsOf(olds[i]).items) >= 2

\* C3: rule coverage with disjoint rules: the loop has eleven rules, no name
\* satisfies two of their conditions, the names they compare against are the
\* nineteen of the table, and after the patch of a freshly extracted schema
\* every instruction with a name of the table has gained exactly one
\* argument: the one the table gives for that name.
C3_RuleCoverage ==
  /\ Len(Rules) = 11
  /\ \A n \in AllNames :
       /\ Cardinality({r \in 1..Len(Rules) : RuleMatches(r, Str(n))}) <= 1
       /\ (n \in TableNames) = (\E r \in 1..Len(Rules) : RuleMatches(r, Str(n)))
  /\ (IdlPatched /\ child = "exit 0") =>
       LET olds == InstructionsOf(OldIdl)
           news == InstructionsOf(NewIdl)
       IN \A i \in 1..Len(olds) :
            InTable(olds[i]) =>
              ArgsOf(news[i]).items
                = Append(ArgsOf(olds[i]).items, TableArgument(NameOf(olds[i]).s))

\* C3's case: a freshly extracted schema with two instructions of the table
\* has been patched.
C3_Witness ==
  /\ IdlPatched /\ child = "exit 0"
  /\ LET olds == InstructionsOf(OldIdl)
     IN /\ Len(olds) >= 2
        /\ \A i \in 1..Len(olds) : InTable(olds[i])

\* C4: non-interference: after a patch, every instruction whose name matches
\* no rule has an argument sequence equal by value to the one loaded.
C4_NonInterference ==
  IdlPatched =>
    LET olds == InstructionsOf(OldIdl)
        news == InstructionsOf(NewIdl)
    IN \A i \in 1..Len(olds) :
         ~InTable(olds[i]) =>
           i <= Len(news) /\ ArgsOf(news[i]) = ArgsOf(olds[i])

\* C4's case: a patch has passed over an instruction outside the table that
\* has arguments.
C4_Witness ==
  /\ IdlPatched
  /\ LET olds == InstructionsOf(OldIdl)
     IN \E i \in 1..Len(olds) :
          /\ ~InTable(olds[i])
          /\ ArgsOf(olds[i]).k = "arr"
          /\ ArgsOf(olds[i]).items # <<>>
\* C5 (as claimed): the load, patch and save run only after a successful
\* exit of the extraction tool: when it ends with a non-zero code or by a
\* signal, mutateIdl is not called and the file is not rewritten in that run.
C5_PatchOnlyOnSuccess ==
  (program = "generateIdl" /\ child \in {"exit 1", "SIGKILL"}) =>
    (mutateCalls = 0 /\ ~wrote /\ fs[generatedIdlPath] = base)

\* C6 (as claimed): a failure of the generator is fatal: when the require of
\* the schema throws or renderAndWriteTo rejects, the rejection reaches the
\* main().catch handler and the driver ends with status 1, never with 0 and
\* never reporting success.
C6_GeneratorFailureFatal ==
  (program \in {"generateClient", "generateClientPrettier"}
     /\ generator = "failed" /\ pc = "exited") =>
    (exitStatus = "1" /\ caught /\ "Success!" \notin console)

\* C7: a spawn failure of the extraction tool is fatal and leaves the schema
\* alone: once the "error" listener has run, a diagnostic is written (with
\* the installation hint for ENOENT), the process has ended with status 1,
\* mutateIdl has not been called and the schema file is as the process found
\* it; and while the error is still pending the patch has not run either.
C7_SpawnFailureFatal ==
  /\ onError =>
       /\ pc = "exited" /\ exitStatus = "1"
       /\ "err" \in console
       /\ (child = "ENOENT" => "install shank" \in console)
       /\ mutateCalls = 0 /\ ~wrote
       /\ "Mutating IDL" \notin console
       /\ fs[generatedIdlPath] = base
  /\ (program = "generateIdl" /\ child \in {"ENOENT", "EACCES"}) =>
       /\ mutateCalls = 0 /\ ~wrote
       /\ (pc = "exited" => onError)

\* C7's case: the tool was not found and the "error" listener has run.
C7_Witness ==
  program = "generateIdl" /\ child = "ENOENT" /\ onError /\ pc = "exited"

\* What section 4.1 calls malformed: no content, content that is no valid
\* structured data, or a schema without `instructions` or without `types`.
Malformed(file) ==
  \/ ~Require(file).ok
  \/ Get(Require(file).val, "instructions") = Undefined
  \/ Get(Require(file).val, "types") = Undefined

\* C8 (as claimed): a malformed schema is rejected without writing: when the
\* file lacks valid content, `instructions` or `types`, mutateIdl fails, the
\* process ends with status 1 and the file is not written.
C8_MalformedRejected ==
  (program = "generateIdl" /\ mutateCalls > 0 /\ Malformed(base)) =>
    (~wrote /\ pc = "exited" /\ exitStatus = "1"
       /\ fs[generatedIdlPath] = base)

\* C9: failures of the formatter are not fatal: once the generator has
\* completed, the run cannot reach the failure handler or status 1, whether
\* prettier cannot be spawned or ends with a non-zero status, and it ends
\* with status 0.
C9_FormatterNonFatal ==
  (program \in {"generateClient", "generateClientPrettier"}
     /\ generator = "done") =>
    /\ exitStatus \in {"none", "0"}
    /\ ~caught
    /\ "err" \notin console
    /\ (pc = "exited" => exitStatus = "0")

\* C9's case: prettier could not be spawned, its "error" listener has run
\* and the process has ended.
C9_Witness ==
  /\ program = "generateClientPrettier" /\ generator = "done"
  /\ child = "ENOENT"
  /\ "Failed to lint client files" \in console
  /\ pc = "exited"

\* C10: round-trip stability: saving what loads from a saved schema writes
\* the bytes of that save again.  Checked of every loadable schema file on
\* storage, whose save is the canonical form.
C10_RoundTrip ==
  \A p \in Paths :
    LET loaded == Require(fs[p])
    IN loaded.ok =>
         LET canonical == Saved(loaded.val)
             again == Require(canonical)
         IN again.ok /\ Saved(again.val) = canonical

\* C10's case: a file that loads but is not in the canonical form has been
\* loaded, patched and saved, and what is on storage is the save of what
\* loads from it.
C10_Witness ==
  /\ IdlPatched
  /\ base # Saved(OldIdl)
  /\ \E i \in 1..Len(InstructionsOf(NewIdl)) :
       ArgsOf(InstructionsOf(NewIdl)[i]).items # <<>>
  /\ fs[generatedIdlPath] = Saved(NewIdl)
\* C11 (as claimed): over any sequence of runs of generateIdl.js on the same
\* path, runs with a failing extraction included, no instruction of the
\* stored schema carries more than one copy of the argument its rule
\* appends, and a run that finds the file as an earlier patch left it (the
\* extraction failed) leaves it byte for byte as it was.
C11_PatchedOnce ==
  /\ LET stored == InstructionsOf(NewIdl)
     IN \A i \in 1..Len(stored) :
          (InTable(stored[i]) /\ ArgsOf(stored[i]).k = "arr") =>
            Cardinality({ j \in 1..Len(ArgsOf(stored[i]).items) :
                            ArgsOf(stored[i]).items[j]
                              = TableArgument(NameOf(stored[i]).s) }) <= 1
  /\ (program = "generateIdl" /\ child \in {"exit 1", "SIGKILL"}) =>
       fs[generatedIdlPath] = base
\* C12 (as claimed): the generation driver loads the file the patch step
\* saved: whenever a driver runs while generatedIdlPath holds what mutateIdl
\* saved, the file its require read is that file.
C12_DriverLoadsPatched ==
  (program \in {"generateClient", "generateClientPrettier"} /\ patchedOnDisk) =>
    fed = fs[generatedIdlPath]
\* The names of an instruction's arguments are pairwise distinct.
DistinctArgNames(instruction) ==
  LET args == ArgsOf(instruction).items
  IN \A i, j \in 1..Len(args) :
       Get(args[i], "name") = Get(args[j], "name") => i = j

\* C13 (as claimed): the patch preserves the uniqueness of argument names: if
\* every instruction of the loaded schema has pairwise-distinct argument
\* names, so has every instruction of the saved schema (an instruction that
\* already has an argument with the rule's name is left as it is).
C13_NamesStayUnique ==
  IdlPatched =>
    LET old == InstructionsOf(OldIdl)
        new == InstructionsOf(NewIdl)
    IN (\A i \in 1..Len(old) : DistinctArgNames(old[i])) =>
         (\A i \in 1..Len(new) : DistinctArgNames(new[i]))
\* C14 (as claimed): the exit-code contract of a run: a process that has not
\* ended can take a step (it does not hang once its tool has exited and the
\* generator's promise has settled); it ends with status 0 only if every
\* stage that is not optional succeeded: the extraction ended with code 0
\* and the patch saved a well-formed schema, or the generator completed; and
\* it ends with status 1 if the schema was malformed, the extraction binary
\* could not be spawned, or the generator failed.
C14_ExitContract ==
  /\ pc \notin {"idle", "exited"} => ENABLED Next
  /\ (pc = "exited" /\ exitStatus = "0") =>
       IF program = "generateIdl"
       THEN child = "exit 0" /\ wrote /\ ~Malformed(base)
       ELSE generator = "done"
  /\ pc = "exited" =>
       /\ (program = "generateIdl" /\ mutateCalls > 0 /\ Malformed(base)) =>
            exitStatus = "1"
       /\ (program = "generateIdl" /\ child \in {"ENOENT", "EACCES"}) =>
            exitStatus = "1"
       /\ (program \in {"generateClient", "generateClientPrettier"}
             /\ generator = "failed") => exitStatus = "1"
\* C15: the formatter is started only after the generation has completed: in
\* a driver process prettier has been spawned only if renderAndWriteTo has
\* resolved; while the generator is pending or has failed there is no
\* formatter and none was announced; and within one process a step starts
\* the formatter only if none was started before, so at most once.
C15_FormatterAfterGenerator ==
  /\ [](program \in {"generateClient", "generateClientPrettier"} =>
          /\ (child # "none" \/ "Running prettier" \in console) =>
               generator = "done"
          /\ program = "generateClient" => child = "none")
  /\ [][(/\ runs' = runs
         /\ program \in {"generateClient", "generateClientPrettier"}
         /\ child' \in {"running", "ENOENT"}
         /\ (child' # child \/ "Running prettier" \notin console)) =>
          (/\ child = "none"
           /\ "Running prettier" \notin console
           /\ generator = "pending"
           /\ generator' = "done")]_vars

\* C15's case: the generator has completed and prettier has been spawned.
C15_Witness ==
  /\ program = "generateClientPrettier"
  /\ generator = "done"
  /\ child = "running"
  /\ "Running prettier" \in console
\* What the claim calls well-formed: the file loads, and each instruction of
\* its `instructions` has a name and an argument sequence.
WellFormed(file) ==
  LET loaded == Require(file)
      instructions == Get(loaded.val, "instructions")
  IN /\ loaded.ok
     /\ instructions.k = "arr"
     /\ \A i \in 1..Len(instructions.items) :
          /\ NameOf(instructions.items[i]).k = "str"
          /\ ArgsOf(instructions.items[i]).k = "arr"

\* C16: the patch is total, and what it does not know it leaves alone
\* silently: whenever mutateIdl has been called on a well-formed schema,
\* whichever of the table's names occur in it, it has raised no error, the
\* save has run and the process has not ended with status 1; and every
\* instruction whose name the table does not hold (absent from it, or spelled
\* differently) is saved as it was loaded.
C16_TotalSilent ==
  (program = "generateIdl" /\ mutateCalls > 0 /\ WellFormed(base)) =>
    /\ wrote
    /\ "err" \notin console
    /\ exitStatus # "1"
    /\ LET saved == Require(fs[generatedIdlPath])
           old == InstructionsOf(OldIdl)
           new == InstructionsOf(saved.val)
       IN /\ saved.ok
          /\ Len(new) = Len(old)
          /\ \A i \in 1..Len(old) : ~InTable(old[i]) => new[i] = old[i]

\* C16's case: a schema in which none of the table's names occurs, one of
\* its instructions being the correctly spelled CancelMultipleOrdersById, has
\* been patched and saved.
C16_Witness ==
  /\ IdlPatched
  /\ WellFormed(base)
  /\ LET old == InstructionsOf(OldIdl)
     IN /\ Len(old) > 0
        /\ \A i \in 1..Len(old) : ~InTable(old[i])
        /\ \E i \in 1..Len(old) :
             NameOf(old[i]) = Str("CancelMultipleOrdersById")
\* Objects a and b have the same properties in the same order, with equal
\* values but for the property `key`.
SameExcept(a, b, key) ==
  /\ a.k = b.k
  /\ Len(a.items) = Len(b.items)
  /\ \A j \in 1..Len(a.items) :
       /\ a.items[j].s = b.items[j].s
       /\ a.items[j].s # key => a.items[j] = b.items[j]

\* s is the beginning of t.
IsPrefix(s, t) ==
  Len(s) <= Len(t) /\ \A j \in 1..Len(s) : t[j] = s[j]

\* C17: the frame of the patch: the saved schema differs from the loaded one
\* in nothing but the tail of the argument sequence of instructions the
\* table names.  Its top-level properties (the type and error definitions
\* among them) are those loaded, in that order and with those values, but
\* for `instructions`; the instructions are as many, in the same order, each
\* with its name and other fields as loaded and with the loaded arguments at
\* the front of its arguments; an instruction outside the table is equal to
\* the loaded one.
C17_Frame ==
  IdlPatched =>
    LET loaded == OldIdl
        saved == NewIdl
        old == InstructionsOf(loaded)
        new == InstructionsOf(saved)
    IN /\ SameExcept(saved, loaded, "instructions")
       /\ Get(saved, "types") = Get(loaded, "types")
       /\ Get(saved, "errors") = Get(loaded, "errors")
       /\ Len(new) = Len(old)
       /\ \A i \in 1..Len(old) :
            /\ SameExcept(new[i], old[i], "args")
            /\ NameOf(new[i]) = NameOf(old[i])
            /\ ArgsOf(old[i]).k = "arr" =>
                 /\ ArgsOf(new[i]).k = "arr"
                 /\ IsPrefix(ArgsOf(old[i]).items, ArgsOf(new[i]).items)
            /\ ~InTable(old[i]) => new[i] = old[i]

\* C17's case: a schema with type and error definitions and with extracted
\* arguments, one of its instructions in the table and one outside it, has
\* been patched and saved, and the saved file differs from the loaded one.
C17_Witness ==
  /\ IdlPatched
  /\ fs[generatedIdlPath] # base
  /\ Get(OldIdl, "types") # Undefined
  /\ Get(OldIdl, "errors") # Undefined
  /\ LET old == InstructionsOf(OldIdl)
     IN /\ \E i \in 1..Len(old) :
             InTable(old[i]) /\ Len(ArgsOf(old[i]).items) > 1
        /\ \E i \in 1..Len(old) : ~InTable(old[i])
====
